---- MODULE Spec2Model ----
(***************************************************************************)
(* Bay-Area-Company-Data-Scraper: the extraction and normalization core.   *)
(*                                                                         *)
(*   scraper.py                        directory cards -> startup records  *)
(*   sf_bay_area_companies_scraper.py  wiki list entries -> company records*)
(*   sf_bay_area_startups_cleaner.py   row loop + text normalizers         *)
(*   sf_bay_area_companies_cleaner.py  row loop + text normalizers         *)
(*                                                                         *)
(* Python values.  A str is a TLA+ string; its characters are read with    *)
(* Ch.  An Optional value is None (the empty tuple) or Some(v) (a 1-tuple).*)
(* A list is a sequence.  A float is the exact rational <<n, d>> with d a  *)
(* power of ten and no common factor ten.  A raised exception that leaves  *)
(* a function is the 3-tuple ValueError.  Three characters outside ASCII   *)
(* are written with stand-ins that occur nowhere else in the inputs:       *)
(* EN_DASH (U+2013), NBSP (U+00A0) and PIN (U+1F4CD).                      *)
(***************************************************************************)
EXTENDS Integers, Sequences, FiniteSets, TLC

----------------------------------------------------------------------------
(* Python values *)

None == <<>>
Some(v) == <<v>>
IsNone(o) == Len(o) = 0
IsSome(o) == Len(o) = 1
ValueError == <<"ValueError", "", "">>
AttributeError == <<"AttributeError", "", "">>
IndexError == <<"IndexError", "", "">>
KeyError == <<"KeyError", "", "">>
\* anything else a bare `except:` catches (MemoryError, KeyboardInterrupt, ...)
BaseException == <<"BaseException", "", "">>
Raised(r) == Len(r) = 3

EN_DASH == "^"
NBSP == "|"
PIN == "@"

----------------------------------------------------------------------------
(* Characters and str methods *)

\* s[i-1], or the empty string when i is not a position of s
Ch(s, i) == IF 1 <= i /\ i <= Len(s) THEN SubSeq(s, i, i) ELSE ""

Digits == {"0", "1", "2", "3", "4", "5", "6", "7", "8", "9"}

DigitVal(c) ==
    CASE c = "0" -> 0 [] c = "1" -> 1 [] c = "2" -> 2 [] c = "3" -> 3
      [] c = "4" -> 4 [] c = "5" -> 5 [] c = "6" -> 6 [] c = "7" -> 7
      [] c = "8" -> 8 [] c = "9" -> 9

UpperLetters ==
    {"A", "B", "C", "D", "E", "F", "G", "H", "I", "J", "K", "L", "M", "N",
     "O", "P", "Q", "R", "S", "T", "U", "V", "W", "X", "Y", "Z"}
LowerLetters ==
    {"a", "b", "c", "d", "e", "f", "g", "h", "i", "j", "k", "l", "m", "n",
     "o", "p", "q", "r", "s", "t", "u", "v", "w", "x", "y", "z"}

IsUpper(c) == c \in UpperLetters
IsLower(c) == c \in LowerLetters

\* the lower-case letter of each upper-case letter
ToLower ==
    ("A" :> "a") @@ ("B" :> "b") @@ ("C" :> "c") @@ ("D" :> "d") @@
    ("E" :> "e") @@ ("F" :> "f") @@ ("G" :> "g") @@ ("H" :> "h") @@
    ("I" :> "i") @@ ("J" :> "j") @@ ("K" :> "k") @@ ("L" :> "l") @@
    ("M" :> "m") @@ ("N" :> "n") @@ ("O" :> "o") @@ ("P" :> "p") @@
    ("Q" :> "q") @@ ("R" :> "r") @@ ("S" :> "s") @@ ("T" :> "t") @@
    ("U" :> "u") @@ ("V" :> "v") @@ ("W" :> "w") @@ ("X" :> "x") @@
    ("Y" :> "y") @@ ("Z" :> "z")

\* \s of the re module and the characters str.strip() removes
Whitespace == {" ", "\t", "\n", "\r", NBSP}

\* \w of the re module
IsWordCh(c) == IsUpper(c) \/ IsLower(c) \/ c \in Digits \/ c = "_"

LowerCh(c) == IF IsUpper(c) THEN ToLower[c] ELSE c

RECURSIVE lower(_)
lower(s) == IF s = "" THEN "" ELSE LowerCh(Head(s)) \o lower(Tail(s))

\* least element of a set of positions, 0 when there is none
MinIdx(S) == IF S = {} THEN 0 ELSE CHOOSE i \in S : \A j \in S : i <= j

\* greatest element of a set of positions, 0 when there is none
MaxIdx(S) == IF S = {} THEN 0 ELSE CHOOSE i \in S : \A j \in S : j <= i

StartsWithAt(s, p, i) ==
    /\ i >= 1
    /\ i + Len(p) - 1 <= Len(s)
    /\ SubSeq(s, i, i + Len(p) - 1) = p

\* str.find, 1-based, 0 when absent
Find(s, p) == MinIdx({i \in 1..(Len(s) + 1) : StartsWithAt(s, p, i)})

\* the `in` operator on two strs
Contains(s, p) == Find(s, p) # 0

\* end of the longest run of characters of C that starts at i (i-1: no run)
RunEnd(s, i, C) ==
    LET stop == MinIdx({j \in i..Len(s) : Ch(s, j) \notin C})
    IN  IF i > Len(s) THEN i - 1
        ELSE IF stop = 0 THEN Len(s) ELSE stop - 1

\* str.lstrip(chars) / str.rstrip(chars) / str.strip(chars)
lstrip(s, C) == SubSeq(s, RunEnd(s, 1, C) + 1, Len(s))

rstrip(s, C) ==
    LET keep == MaxIdx({j \in 1..Len(s) : Ch(s, j) \notin C})
    IN  SubSeq(s, 1, keep)

stripChars(s, C) == rstrip(lstrip(s, C), C)

\* str.strip()
strip(s) == stripChars(s, Whitespace)

\* str.replace(old, new) for a non-empty old: leftmost, non-overlapping
RECURSIVE replace(_, _, _)
replace(s, old, new) ==
    LET i == Find(s, old)
    IN  IF i = 0 THEN s
        ELSE SubSeq(s, 1, i - 1) \o new
             \o replace(SubSeq(s, i + Len(old), Len(s)), old, new)

\* str.isdigit() on ASCII text
isdigit(s) == s # "" /\ \A i \in 1..Len(s) : Ch(s, i) \in Digits

\* str.split(sep) for a non-empty sep
RECURSIVE split(_, _)
split(s, sep) ==
    LET i == Find(s, sep)
    IN  IF i = 0 THEN <<s>>
        ELSE <<SubSeq(s, 1, i - 1)>> \o split(SubSeq(s, i + Len(sep), Len(s)), sep)

\* ', '.join(list)
RECURSIVE join(_, _)
join(sep, xs) ==
    IF Len(xs) = 0 THEN ""
    ELSE IF Len(xs) = 1 THEN xs[1]
    ELSE xs[1] \o sep \o join(sep, Tail(xs))

----------------------------------------------------------------------------
(* int() and float() *)

\* value of a non-empty string of decimal digits
RECURSIVE DigitsVal(_)
DigitsVal(ds) ==
    IF ds = "" THEN 0
    ELSE 10 * DigitsVal(SubSeq(ds, 1, Len(ds) - 1)) + DigitVal(Ch(ds, Len(ds)))

\* digits, with single underscores allowed between digits
IsIntBody(s) ==
    /\ s # ""
    /\ \A i \in 1..Len(s) : Ch(s, i) \in Digits \cup {"_"}
    /\ Ch(s, 1) # "_" /\ Ch(s, Len(s)) # "_"
    /\ ~ Contains(s, "__")

\* int(str): surrounding whitespace, an optional sign, a decimal literal;
\* anything else raises ValueError
PyInt(s) ==
    LET t == strip(s)
        signed == t # "" /\ Ch(t, 1) \in {"+", "-"}
        body == IF signed THEN Tail(t) ELSE t
        mag == DigitsVal(replace(body, "_", ""))
    IN  IF ~ IsIntBody(body) THEN ValueError
        ELSE IF signed /\ Ch(t, 1) = "-" THEN Some(0 - mag) ELSE Some(mag)

RECURSIVE Pow10(_)
Pow10(k) == IF k = 0 THEN 1 ELSE 10 * Pow10(k - 1)

RECURSIVE Float(_, _)
Float(n, d) == IF d > 1 /\ n % 10 = 0 THEN Float(n \div 10, d \div 10) ELSE <<n, d>>

CountCh(s, c) == Cardinality({i \in 1..Len(s) : Ch(s, i) = c})

\* float(str) for text made of digits and dots, which is all the callers'
\* character classes let through: at most one dot and at least one digit,
\* anything else raises ValueError
PyFloat(s) ==
    LET dot == Find(s, ".")
        frac == IF dot = 0 THEN 0 ELSE Len(s) - dot
        ds == replace(s, ".", "")
    IN  IF CountCh(s, ".") > 1 \/ ~ isdigit(ds) THEN ValueError
        ELSE Some(Float(DigitsVal(ds), Pow10(frac)))

\* float * 1000.0
Times1000(f) == Float(f[1] * 1000, f[2])

\* int(float) truncates; the values here are never negative
IntOfFloat(f) == f[1] \div f[2]

\* str(int), as csv.DictWriter writes an integer cell
RECURSIVE NatToStr(_)
NatToStr(n) ==
    IF n < 10 THEN Ch("0123456789", n + 1)
    ELSE NatToStr(n \div 10) \o Ch("0123456789", (n % 10) + 1)

IntToStr(n) == IF n < 0 THEN "-" \o NatToStr(0 - n) ELSE NatToStr(n)

\* the k low decimal digits of n, zero-padded
RECURSIVE FracDigits(_, _)
FracDigits(n, d) ==
    IF d = 1 THEN "" ELSE FracDigits(n \div 10, d \div 10) \o Ch("0123456789", (n % 10) + 1)

\* str(float) in positional notation, as csv.DictWriter writes a float cell
FloatToStr(f) ==
    IF f[2] = 1 THEN NatToStr(f[1]) \o ".0"
    ELSE NatToStr(f[1] \div f[2]) \o "." \o FracDigits(f[1] % f[2], f[2])

----------------------------------------------------------------------------
(* sf_bay_area_startups_cleaner.py: text normalizers *)

\* parse_company_size with the midpoint rounded up instead of down
parse_company_size_ceil(size_str) ==
    LET e1 == RunEnd(size_str, 1, Digits)
        e2 == RunEnd(size_str, e1 + 2, Digits)
        match == e1 >= 1 /\ Ch(size_str, e1 + 1) = "-" /\ e2 >= e1 + 2
        low == DigitsVal(SubSeq(size_str, 1, e1))
        high == DigitsVal(SubSeq(size_str, e1 + 2, e2))
        plus_match == e1 >= 1 /\ StartsWithAt(size_str, "+ employees", e1 + 1)
        base == DigitsVal(SubSeq(size_str, 1, e1))
    IN  IF match THEN Some((low + high + 1) \div 2)
        ELSE IF plus_match THEN Some(base)
        ELSE None

\* re.match(r'(\d+)-(\d+)') then re.match(r'(\d+)\+ employees')
parse_company_size(size_str) ==
    LET e1 == RunEnd(size_str, 1, Digits)
        e2 == RunEnd(size_str, e1 + 2, Digits)
        match == e1 >= 1 /\ Ch(size_str, e1 + 1) = "-" /\ e2 >= e1 + 2
        low == DigitsVal(SubSeq(size_str, 1, e1))
        high == DigitsVal(SubSeq(size_str, e1 + 2, e2))
        plus_match == e1 >= 1 /\ StartsWithAt(size_str, "+ employees", e1 + 1)
        base == DigitsVal(SubSeq(size_str, 1, e1))
    IN  IF match THEN Some((low + high) \div 2)
        ELSE IF plus_match THEN Some(base)
        ELSE None

\* int(year_str.strip()) is not guarded: its ValueError leaves the function
parse_founded_year(year_str) ==
    IF strip(year_str) # "" THEN PyInt(strip(year_str)) ELSE None

\* re.search(r'\$([\d\.]+)([MB])'); float(group 1) is not guarded
parse_currency_field(value_str) ==
    LET s == value_str
        NumEnd(i) == RunEnd(s, i + 1, Digits \cup {"."})
        i == MinIdx({j \in 1..Len(s) :
                 /\ Ch(s, j) = "$"
                 /\ NumEnd(j) >= j + 1
                 /\ Ch(s, NumEnd(j) + 1) \in {"M", "B"}})
        amount == PyFloat(SubSeq(s, i + 1, NumEnd(i)))
        unit == Ch(s, NumEnd(i) + 1)
    IN  IF s = "" \/ strip(s) = "" THEN <<None, None>>
        ELSE IF i = 0 THEN <<None, None>>
        ELSE IF Raised(amount) THEN ValueError
        ELSE IF unit = "B" THEN <<Some(Times1000(amount[1])), Some(unit)>>
        ELSE <<Some(amount[1]), Some(unit)>>

----------------------------------------------------------------------------
(* sf_bay_area_companies_cleaner.py: text normalizers *)

\* a match of r'\bU\.S\.\b' at position i: the closing \b needs a word
\* character right after the last dot
USMatchAt(s, i) ==
    /\ StartsWithAt(s, "U.S.", i)
    /\ ~ IsWordCh(Ch(s, i - 1))
    /\ IsWordCh(Ch(s, i + 4))

\* re.sub(r'\bU\.S\.\b', 'US', s), scanning from position i
RECURSIVE SubUS(_, _)
SubUS(s, i) ==
    LET m == MinIdx({j \in i..Len(s) : USMatchAt(s, j)})
    IN  IF m = 0 THEN SubSeq(s, i, Len(s))
        ELSE SubSeq(s, i, m - 1) \o "US" \o SubUS(s, m + 4)

normalize_location(location_str) ==
    IF location_str = "" THEN location_str
    ELSE strip(SubUS(location_str, 1))

\* end of a match of r'\[.*?\]' (or r'\(.*?\)') that opens at position j:
\* the first closer after j, provided no newline lies between; 0: no match
LazyClose(s, j, closer) ==
    LET k == MinIdx({n \in (j + 1)..Len(s) : Ch(s, n) = closer})
    IN  IF k # 0 /\ \A n \in (j + 1)..(k - 1) : Ch(s, n) # "\n" THEN k ELSE 0

\* re.sub(r'\[.*?\]', '', s), scanning from position i
RECURSIVE SubBrackets(_, _)
SubBrackets(s, i) ==
    LET m == MinIdx({j \in i..Len(s) : Ch(s, j) = "[" /\ LazyClose(s, j, "]") # 0})
    IN  IF m = 0 THEN SubSeq(s, i, Len(s))
        ELSE SubSeq(s, i, m - 1) \o SubBrackets(s, LazyClose(s, m, "]") + 1)

clean_headquarters(value) ==
    IF value = "" THEN value
    ELSE strip(normalize_location(SubBrackets(value, 1)))

\* end of a match of r'\d+\s+years\s+ago' (IGNORECASE) that starts at
\* position j; 0: no match
YearsAgoEnd(s, j) ==
    LET e1 == RunEnd(s, j, Digits)
        w1 == RunEnd(s, e1 + 1, Whitespace)
        w2 == RunEnd(s, w1 + 6, Whitespace)
    IN  IF /\ e1 >= j
           /\ w1 >= e1 + 1
           /\ w1 + 5 <= Len(s)
           /\ lower(SubSeq(s, w1 + 1, w1 + 5)) = "years"
           /\ w2 >= w1 + 6
           /\ w2 + 3 <= Len(s)
           /\ lower(SubSeq(s, w2 + 1, w2 + 3)) = "ago"
        THEN w2 + 3 ELSE 0

\* end of a match of r'\d+\s+years\s+ago\s*\(.*?\)' that starts at j
YearsAgoParenEnd(s, j) ==
    LET a == YearsAgoEnd(s, j)
        w3 == RunEnd(s, a + 1, Whitespace)
    IN  IF a # 0 /\ Ch(s, w3 + 1) = "(" THEN LazyClose(s, w3 + 1, ")") ELSE 0

\* re.sub(r'\d+\s+years\s+ago\s*\(.*?\)', '', s), scanning from position i
RECURSIVE SubYearsAgoParen(_, _)
SubYearsAgoParen(s, i) ==
    LET m == MinIdx({j \in i..Len(s) : YearsAgoParenEnd(s, j) # 0})
    IN  IF m = 0 THEN SubSeq(s, i, Len(s))
        ELSE SubSeq(s, i, m - 1) \o SubYearsAgoParen(s, YearsAgoParenEnd(s, m) + 1)

\* re.sub(r'\d+\s+years\s+ago', '', s), scanning from position i
RECURSIVE SubYearsAgo(_, _)
SubYearsAgo(s, i) ==
    LET m == MinIdx({j \in i..Len(s) : YearsAgoEnd(s, j) # 0})
    IN  IF m = 0 THEN SubSeq(s, i, Len(s))
        ELSE SubSeq(s, i, m - 1) \o SubYearsAgo(s, YearsAgoEnd(s, m) + 1)

clean_founded(value) ==
    IF value = "" THEN value
    ELSE strip(stripChars(SubYearsAgo(SubYearsAgoParen(value, 1), 1), {";", " "}))

\* re.findall(r'(\d{4})', s) as integers, scanning from position i
RECURSIVE FindYears(_, _)
FindYears(s, i) ==
    LET m == MinIdx({j \in i..(Len(s) - 3) :
                 \A n \in j..(j + 3) : Ch(s, n) \in Digits})
    IN  IF m = 0 THEN <<>>
        ELSE <<DigitsVal(SubSeq(s, m, m + 3))>> \o FindYears(s, m + 4)

\* min(list) of a non-empty list of integers
Min(xs) == CHOOSE y \in {xs[n] : n \in 1..Len(xs)} : \A n \in 1..Len(xs) : y <= xs[n]

parse_year_field(value) ==
    LET years == FindYears(value, 1)
    IN  IF value = "" THEN None
        ELSE IF Len(years) > 0 THEN Some(Min(years))
        ELSE None

\* re.findall(r'(\d[\d,\.]*)')[0], cleaned; int(float()) is guarded
parse_employees(value) ==
    LET j == MinIdx({n \in 1..Len(value) : Ch(value, n) \in Digits})
        e == RunEnd(value, j + 1, Digits \cup {",", "."})
        num_str == rstrip(strip(replace(replace(SubSeq(value, j, e), ",", ""), "~", "")), {"."})
        f == PyFloat(num_str)
    IN  IF value = "" THEN None
        ELSE IF j = 0 THEN None
        ELSE IF isdigit(num_str) THEN Some(DigitsVal(num_str))
        ELSE IF Raised(f) THEN None
        ELSE Some(IntOfFloat(f[1]))

\* where the unit alternative (billion|million|m|b)? matches at position p,
\* tried in that order and without regard to case; "" when none does
RevenueUnit(s, p) ==
    LET At(w) == lower(SubSeq(s, p, p + Len(w) - 1)) = w
        Fits(w) == p + Len(w) - 1 <= Len(s) /\ At(w)
    IN  IF Fits("billion") THEN "billion"
        ELSE IF Fits("million") THEN "million"
        ELSE IF Fits("m") THEN "m"
        ELSE IF Fits("b") THEN "b"
        ELSE ""

\* position of the '$' of a match of r'US?\$' (IGNORECASE) starting at j; 0: none
DollarAfterUS(s, j) ==
    IF lower(Ch(s, j)) # "u" THEN 0
    ELSE IF lower(Ch(s, j + 1)) = "s" /\ Ch(s, j + 2) = "$" THEN j + 2
    ELSE IF Ch(s, j + 1) = "$" THEN j + 1
    ELSE 0

\* re.search(r'US?\$([\d\.,]+)\s*(billion|million|m|b)?'); float() is guarded
parse_revenue(value) ==
    LET val_str == strip(replace(value, NBSP, " "))
        NumEnd(d) == RunEnd(val_str, d + 1, Digits \cup {".", ","})
        j == MinIdx({n \in 1..Len(val_str) :
                 /\ DollarAfterUS(val_str, n) # 0
                 /\ NumEnd(DollarAfterUS(val_str, n)) >= DollarAfterUS(val_str, n) + 1})
        d == DollarAfterUS(val_str, j)
        amount_str == replace(SubSeq(val_str, d + 1, NumEnd(d)), ",", "")
        unit_str == RevenueUnit(val_str, RunEnd(val_str, NumEnd(d) + 1, Whitespace) + 1)
        amount == PyFloat(amount_str)
    IN  IF value = "" \/ strip(value) = "" THEN <<None, None>>
        ELSE IF j = 0 THEN <<None, None>>
        ELSE IF Raised(amount) THEN <<None, None>>
        ELSE IF unit_str \in {"billion", "b"} THEN <<Some(Times1000(amount[1])), Some("B")>>
        ELSE IF unit_str \in {"million", "m"} THEN <<Some(amount[1]), Some("M")>>
        ELSE <<Some(amount[1]), Some("M")>>

----------------------------------------------------------------------------
(* scraper.py: extract_startup_info *)

\* try: body / except: default.  A body yields Some(value) or an exception.
Try(body, default) == IF Raised(body) THEN default ELSE body[1]

\* tag.text of a tag of the card; reading a tag whose `raises` is set is
\* interrupted by an exception
TagText(tag) == IF tag.raises THEN BaseException ELSE Some(tag.text)

name_block(card) ==
    LET body == IF IsNone(card.h3) THEN AttributeError
                ELSE Some("name" :> Some(strip(card.h3[1])))
    IN  Some(Try(body, "name" :> None))

description_block(card) ==
    LET description_element == card.what_they_do
        body == IF IsNone(description_element) THEN Some("description" :> None)
                ELSE IF IsNone(description_element[1]) THEN AttributeError
                ELSE Some("description" :> Some(strip(description_element[1][1])))
    IN  Some(Try(body, "description" :> None))

\* [tag.text.strip() for tag in industry_tags if tag.get('id') == 'industry-tags']
RECURSIVE IndustryTexts(_)
IndustryTexts(tags) ==
    IF Len(tags) = 0 THEN Some(<<>>)
    ELSE LET rest == IndustryTexts(Tail(tags))
             text == TagText(Head(tags))
         IN  IF Head(tags).id # "industry-tags" THEN rest
             ELSE IF Raised(text) THEN text
             ELSE IF Raised(rest) THEN rest
             ELSE Some(<<strip(text[1])>> \o rest[1])

industries_block(card) ==
    LET texts == IndustryTexts(card.industry_tags)
        body == IF Raised(texts) THEN texts ELSE Some("industries" :> texts[1])
    IN  Some(Try(body, "industries" :> <<>>))

\* location_block without its try/except: the lookup's exception escapes
location_block_unguarded(card) ==
    LET quick_facts == card.quick_facts
        location_text == quick_facts[1]
        parts == split(strip(location_text[1]), PIN \o "HQ: ")
    IN  IF IsNone(quick_facts) THEN AttributeError
        ELSE IF IsNone(location_text) \/ location_text[1] = ""
             THEN Some("location" :> None)
        ELSE IF Len(parts) < 2 THEN IndexError
        ELSE Some("location" :> Some(split(parts[2], "\n")[1]))

location_block(card) ==
    LET quick_facts == card.quick_facts
        location_text == quick_facts[1]
        parts == split(strip(location_text[1]), PIN \o "HQ: ")
        body == IF IsNone(quick_facts) THEN AttributeError
                ELSE IF IsNone(location_text) \/ location_text[1] = ""
                     THEN Some("location" :> None)
                ELSE IF Len(parts) < 2 THEN IndexError
                ELSE Some("location" :> Some(split(parts[2], "\n")[1]))
    IN  Some(Try(body, "location" :> None))

\* company_size and founded_year share one try block
size_block(card) ==
    LET size_tags == card.size_tags
        first == IF Len(size_tags) > 0 THEN TagText(size_tags[1]) ELSE Some("")
        second == IF Len(size_tags) > 1 THEN TagText(size_tags[2]) ELSE Some("")
        company_size == IF Len(size_tags) > 0 THEN Some(strip(first[1])) ELSE None
        founded_year == IF Len(size_tags) > 1
                        THEN Some(replace(strip(second[1]), "Founded: ", ""))
                        ELSE None
        body == IF Raised(first) THEN first
                ELSE IF Raised(second) THEN second
                ELSE Some(("company_size" :> company_size) @@ ("founded_year" :> founded_year))
    IN  Some(Try(body, ("company_size" :> None) @@ ("founded_year" :> None)))

\* the funding loop from tag number i on, the three fields so far being acc
RECURSIVE FundingLoop(_, _, _)
FundingLoop(tags, i, acc) ==
    IF i > Len(tags) THEN Some(acc)
    ELSE LET text == TagText(tags[i])
             t == strip(text[1])
         IN  IF Raised(text) THEN text
             ELSE IF Contains(t, "Series") \/ Contains(lower(t), "seed")
                  THEN FundingLoop(tags, i + 1, [acc EXCEPT !["latest_funding"] = Some(t)])
             ELSE IF Contains(lower(t), "valuation")
                  THEN FundingLoop(tags, i + 1, [acc EXCEPT !["valuation"] = Some(t)])
             ELSE FundingLoop(tags, i + 1,
                              [acc EXCEPT !["investors"] = Append(@, t)])

NoFunding == ("investors" :> <<>>) @@ ("latest_funding" :> None) @@ ("valuation" :> None)

\* investors, latest_funding and valuation share one try block
funding_block(card) ==
    Some(Try(FundingLoop(card.funding_tags, 1, NoFunding), NoFunding))

website_block(card) ==
    LET website_link == card.website_link
        body == IF IsNone(website_link) THEN Some("website" :> None)
                ELSE IF IsNone(website_link[1]) THEN KeyError
                ELSE Some("website" :> Some(split(website_link[1][1], "?")[1]))
    IN  Some(Try(body, "website" :> None))

\* the statements of a function body in order: the first exception that
\* escapes one of them leaves the function, otherwise the dict they build
RECURSIVE RunBlocks(_, _)
RunBlocks(blocks, startup) ==
    IF Len(blocks) = 0 THEN Some(startup)
    ELSE IF Raised(Head(blocks)) THEN Head(blocks)
    ELSE RunBlocks(Tail(blocks), Head(blocks)[1] @@ startup)

extract_startup_info(card) ==
    RunBlocks(<<name_block(card), description_block(card), industries_block(card),
                location_block(card), size_block(card), funding_block(card),
                website_block(card)>>,
              <<>>)

----------------------------------------------------------------------------
(* Bounds and input alphabets *)

\* longest input text of a normalizer, counted in tokens of its alphabet
MaxTokens == 3

\* most rows of an input table
MaxRows == 2

\* most tags of one kind on a card
MaxTags == 2

\* most pages of the directory, and most cards on one page
MaxPages == 2
MaxCards == 2

\* most h2/h3/ul elements at the top of the list page, and most li in them
MaxElements == 3
MaxItems == 2

\* sequences of at most n elements of S
RECURSIVE SeqsUpTo(_, _)
SeqsUpTo(S, n) ==
    IF n = 0 THEN {<<>>}
    ELSE LET P == SeqsUpTo(S, n - 1) IN P \cup {Append(q, x) : q \in P, x \in S}

\* texts made of at most n tokens of the alphabet T
RECURSIVE Texts(_, _)
Texts(T, n) ==
    IF n = 0 THEN {""}
    ELSE LET P == Texts(T, n - 1) IN P \cup {s \o t : s \in P, t \in T}

\* the texts whose digits, read as one number, fit the integers of the checker
Representable(S) ==
    {s \in S : Cardinality({i \in 1..Len(s) : Ch(s, i) \in Digits}) <= 9}

InputTexts(T) == Representable(Texts(T, MaxTokens))

CurrencyTokens == {"US$", "$", "4", "4.5", "1.2.3", " billion", "M", "B", " ", "x"}
CurrencyTexts ==
    InputTexts(CurrencyTokens) \cup {"US$4.5 billion", "US$12.3 billion", "$4.5B"}

SizeTokens == {"201", "500", "5000", "1,234", "-", "+ employees", " employees", "~", ".", " "}
SizeTexts ==
    InputTexts(SizeTokens) \cup {"201-500 employees", "1,234 employees (2020)"}

FoundedTokens == {"2015", "1999", "9 years ago", " (2015)", "; ", "Founded: ", "x", " "}
FoundedTexts ==
    InputTexts(FoundedTokens)
        \cup {"Founded: 2015; 9 years ago (2015)", "Founded: 1999; 2015; 9 years ago (2015)"}

HeadquartersTokens == {"U.S.", "u.s.", " ", "City, ", "[1]", "A", "[", "]"}
HeadquartersTexts ==
    InputTexts(HeadquartersTokens) \cup {"City, California, U.S.", "City [citation needed]"}

\* what the lookups of extract_startup_info find on a card.  An element that
\* is looked up by its label is None when absent; the text sibling of a label
\* and the href of a link are optional in turn.
SizeTags ==
    {[text |-> " Founded: 2015 ", raises |-> FALSE],
     [text |-> "", raises |-> TRUE]}

FundingTags ==
    {[text |-> " Series A ", raises |-> FALSE],
     [text |-> "$1B Valuation", raises |-> FALSE],
     [text |-> "a16z", raises |-> FALSE],
     [text |-> "", raises |-> TRUE]}

IndustryTags ==
    {<<>>,
     <<[id |-> "industry-tags", text |-> " AI ", raises |-> FALSE],
       [id |-> "other", text |-> "Hiring", raises |-> FALSE]>>}

Cards ==
    [h3 : {None, Some(" Acme ")},
     what_they_do : {None, Some(Some(" Rockets "))},
     industry_tags : IndustryTags,
     quick_facts : {None, Some(Some("Size")), Some(Some(" " \o PIN \o "HQ: SF\nSize"))},
     size_tags : SeqsUpTo(SizeTags, MaxTags),
     funding_tags : SeqsUpTo(FundingTags, MaxTags),
     website_link : {None, Some(Some("acme.io?ref=1"))}]

----------------------------------------------------------------------------
(* State *)

VARIABLES
    program,    \* which script of the repository is running
    pc,         \* its position
    fn,         \* normalizer under call
    arg,        \* the text it is called on
    result,     \* what the call returned or raised
    infile,     \* rows of the input table, as csv.DictReader yields them
    outfile,    \* rows handed to csv.DictWriter so far
    page_number,    \* scrape_startups: page being scraped
    startup_cards,  \* cards of that page the loop has not reached yet
    more,           \* whether that page has the "Show more" link
    startups,       \* records appended so far
    df,             \* the DataFrame that is saved, None before
    content,        \* main: what get_page gave for the list page
    company_list,   \* process_companies: what parse_company_list returned
    company,        \* index in company_list of the entry the loop is at
    companies,      \* self.companies
    detailed_page   \* process_companies: what get_page last gave for an article

callVars == <<fn, arg, result>>
cleanVars == <<infile, outfile>>
scrapeVars == <<page_number, startup_cards, more, startups>>
wikiVars == <<content, company_list, company, companies, detailed_page>>
vars == <<program, pc, callVars, cleanVars, scrapeVars, df, wikiVars>>

CallIdle == fn = "" /\ arg = "" /\ result = None
CleanIdle == infile = <<>> /\ outfile = <<>>
ScrapeIdle == page_number = 0 /\ startup_cards = 0 /\ more = FALSE /\ startups = <<>>
WikiIdle ==
    /\ content = None /\ company_list = <<>> /\ company = 0 /\ companies = <<>>
    /\ detailed_page = None

OutsideCalls == <<cleanVars, scrapeVars, df, wikiVars>>
OutsideCleaners == <<callVars, scrapeVars, df, wikiVars>>
OutsideScraper == <<callVars, cleanVars, wikiVars>>
OutsideWiki == <<callVars, cleanVars, scrapeVars>>

----------------------------------------------------------------------------
(* Calls of the text normalizers on every text of their alphabets *)

Normalizers ==
    {"parse_company_size", "parse_founded_year", "parse_currency_field",
     "clean_headquarters", "founded_year", "parse_employees", "parse_revenue"}

ArgsOf(f) ==
    CASE f \in {"parse_currency_field", "parse_revenue"} -> CurrencyTexts
      [] f \in {"parse_company_size", "parse_employees"} -> SizeTexts
      [] f \in {"parse_founded_year", "founded_year"} -> FoundedTexts
      [] f = "clean_headquarters" -> HeadquartersTexts

InitCalls ==
    /\ program = "normalizers"
    /\ pc = "call"
    /\ fn \in Normalizers
    /\ arg \in ArgsOf(fn)
    /\ result = None
    /\ CleanIdle /\ ScrapeIdle /\ WikiIdle /\ df = None

Calling(f) == program = "normalizers" /\ pc = "call" /\ fn = f

Return(r) == result' = r /\ pc' = "return" /\ UNCHANGED <<program, fn, arg, OutsideCalls>>

call_parse_company_size ==
    Calling("parse_company_size") /\ Return(parse_company_size(arg))

call_parse_founded_year ==
    Calling("parse_founded_year") /\ Return(parse_founded_year(arg))

call_parse_currency_field ==
    Calling("parse_currency_field") /\ Return(parse_currency_field(arg))

call_clean_headquarters ==
    Calling("clean_headquarters") /\ Return(Some(clean_headquarters(arg)))

\* the companies cleaner's founded year: parse_year_field(clean_founded(...))
call_founded_year ==
    Calling("founded_year") /\ Return(parse_year_field(clean_founded(arg)))

call_parse_employees ==
    Calling("parse_employees") /\ Return(parse_employees(arg))

call_parse_revenue ==
    Calling("parse_revenue") /\ Return(parse_revenue(arg))

NextCalls ==
    \/ call_parse_company_size
    \/ call_parse_founded_year
    \/ call_parse_currency_field
    \/ call_clean_headquarters
    \/ call_founded_year
    \/ call_parse_employees
    \/ call_parse_revenue

SpecCalls == InitCalls /\ [][NextCalls]_vars

Returned(f) == program = "normalizers" /\ pc = "return" /\ fn = f

----------------------------------------------------------------------------
(* Claims about the text normalizers, checked under SpecCalls *)

\* the documented currency grammar: <prefix><n><unit>, and the bare number <n>
GrammarPrefixes == {"US$", "$"}
GrammarAmounts == {<<"4", <<4, 1>>>>, <<"4.5", <<45, 10>>>>, <<"12.3", <<123, 10>>>>}
GrammarUnits ==
    {<<" billion", "B", 1000>>, <<"B", "B", 1000>>, <<"M", "M", 1>>, <<"", "M", 1>>}

\* C6: on every text of the documented currency grammar (US$<n> billion,
\* US$<n>M, $<n>B, a bare number) each currency normalizer returns a non-null
\* pair: n * 1000 and "B" for a billion unit, n and "M" for a million unit or
\* no unit, so that the amount re-expressed in the returned unit is n again.
C6_CurrencyGrammar ==
    \A f \in {"parse_revenue", "parse_currency_field"} :
        Returned(f) =>
            \A a \in GrammarAmounts :
                /\ arg = a[1] => result = <<Some(a[2]), Some("M")>>
                /\ \A p \in GrammarPrefixes, u \in GrammarUnits :
                       arg = p \o a[1] \o u[1] =>
                           result = <<Some(Float(a[2][1] * u[3], a[2][2])), Some(u[2])>>

\* C7: every text normalizer is total: whatever the text, the call returns a
\* value and raises nothing.
C7_NormalizersTotal ==
    \A f \in Normalizers : Returned(f) => ~ Raised(result)

\* numerals of the size alphabet and the numbers they denote
SizeNumerals == {<<"201", 201>>, <<"500", 500>>, <<"5000", 5000>>, <<"1,234", 1234>>}

YearNumerals == {<<"2015", 2015>>, <<"1999", 1999>>}
YearQualifiers == {"", "; 9 years ago", "; 9 years ago (2015)"}

\* C9: on a text with one or more 4-digit tokens the founded-year normalizer
\* returns the smallest of them once the "N years ago" qualifiers are removed,
\* and None on a text without a 4-digit token; "Founded: 2015; 9 years ago
\* (2015)" gives 2015.
C9_EarliestYear ==
    \A f \in {"parse_founded_year", "founded_year"} :
        Returned(f) =>
            /\ \A pre \in {"", "Founded: "}, q \in YearQualifiers, y \in YearNumerals :
                   /\ arg = pre \o y[1] \o q => result = Some(y[2])
                   /\ \A z \in YearNumerals :
                          arg = pre \o y[1] \o "; " \o z[1] \o q =>
                              result = Some(IF y[2] <= z[2] THEN y[2] ELSE z[2])
            /\ (\A i \in 1..Len(arg) : Ch(arg, i) \notin Digits) => result = None

\* C10: clean_headquarters returns its text with every bracketed annotation
\* removed, every "U.S." variant replaced by "US" and no surrounding
\* whitespace, and cleaning its own output changes nothing.
C10_Headquarters ==
    Returned("clean_headquarters") =>
        LET out == result[1]
        IN  /\ ~ Contains(lower(out), "u.s.")
            /\ ~ \E i, j \in 1..Len(out) : i < j /\ Ch(out, i) = "[" /\ Ch(out, j) = "]"
            /\ out = strip(out)
            /\ clean_headquarters(out) = out

----------------------------------------------------------------------------
(* The cleaners' row loops *)

\* rows of sf_bay_area_startups.csv
StartupRows ==
    [name : {"Acme"}, description : {"Rockets"}, industries : {"Space, AI"},
     location : {"Palo Alto"},
     company_size : {"", "201-500 employees"},
     founded_year : {"", "2015", "N/A"},
     investors : {"a16z"},
     latest_funding : {"$4M Series A", "$1.2.3M Seed"},
     valuation : {"", "$4.5B valuation"},
     website : {"https://acme.example"}]

\* rows of bay_area_companies.csv
CompanyRows ==
    [name : {"Acme"}, industry : {"Aerospace"},
     headquarters : {"City, California, U.S.", " San Jose [1]"},
     founded : {"", "2015; 9 years ago (2015)"},
     revenue : {"US$4.5 billion", "n/a"},
     employees : {"", "1,234 (2020)"}]

InitCleaners ==
    /\ program \in {"startups_cleaner", "companies_cleaner"}
    /\ pc = "rows"
    /\ infile \in SeqsUpTo(IF program = "startups_cleaner" THEN StartupRows ELSE CompanyRows,
                           MaxRows)
    /\ outfile = <<>>
    /\ CallIdle /\ ScrapeIdle /\ WikiIdle /\ df = None

\* the row the loop is about to read
row == infile[Len(outfile) + 1]

\* a cell of an optional number: '' for None
IntCell(o) == IF IsNone(o) THEN "" ELSE IntToStr(o[1])
FloatCell(o) == IF IsNone(o) THEN "" ELSE FloatToStr(o[1])
UnitCell(o) == IF IsNone(o) \/ o[1] = "" THEN "" ELSE o[1]

\* one pass of `for row in reader` of the startups cleaner; an exception of
\* a normalizer is caught nowhere and ends the script
startups_clean_row ==
    /\ program = "startups_cleaner" /\ pc = "rows"
    /\ Len(outfile) < Len(infile)
    /\ LET cs == row.company_size
           numeric_size == IF cs # "" THEN parse_company_size(cs) ELSE None
           fy == row.founded_year
           fy_val == IF fy # "" THEN parse_founded_year(fy) ELSE None
           val == parse_currency_field(row.valuation)
           lf == parse_currency_field(row.latest_funding)
           written ==
               [name |-> row.name, description |-> row.description,
                industries |-> row.industries, location |-> row.location,
                company_size |-> IntCell(numeric_size),
                founded_year |-> IntCell(fy_val),
                investors |-> row.investors,
                latest_funding |-> row.latest_funding,
                valuation |-> row.valuation,
                website |-> row.website,
                latest_funding_in_millions |-> FloatCell(lf[1]),
                latest_funding_original_unit |-> UnitCell(lf[2]),
                valuation_in_millions |-> FloatCell(val[1]),
                valuation_original_unit |-> UnitCell(val[2])]
       IN  IF Raised(fy_val) \/ Raised(val) \/ Raised(lf)
           THEN pc' = "aborted" /\ UNCHANGED outfile
           ELSE pc' = pc /\ outfile' = Append(outfile, written)
    /\ UNCHANGED <<program, infile, OutsideCleaners>>

\* one pass of `for row in reader` of the companies cleaner
companies_clean_row ==
    /\ program = "companies_cleaner" /\ pc = "rows"
    /\ Len(outfile) < Len(infile)
    /\ LET fy == parse_year_field(clean_founded(row.founded))
           rev == parse_revenue(row.revenue)
           emp_num == parse_employees(row.employees)
           written ==
               [name |-> row.name, industry |-> row.industry,
                headquarters |-> clean_headquarters(row.headquarters),
                founded |-> row.founded,
                revenue |-> row.revenue,
                employees |-> row.employees,
                founded_year |-> IntCell(fy),
                revenue_in_millions |-> FloatCell(rev[1]),
                revenue_original_unit |-> UnitCell(rev[2]),
                employees_numeric |-> IntCell(emp_num)]
       IN  outfile' = Append(outfile, written)
    /\ UNCHANGED <<program, pc, infile, OutsideCleaners>>

\* the reader is exhausted: the files close and the script prints its summary
cleaner_end ==
    /\ program \in {"startups_cleaner", "companies_cleaner"} /\ pc = "rows"
    /\ Len(outfile) = Len(infile)
    /\ pc' = "done"
    /\ UNCHANGED <<program, infile, outfile, OutsideCleaners>>

NextCleaners ==
    \/ startups_clean_row
    \/ companies_clean_row
    \/ cleaner_end

SpecCleaners == InitCleaners /\ [][NextCleaners]_vars

\* C4: each cleaner's row loop writes exactly one output row per input row,
\* in input order: no row's unnormalizable field aborts the run, a
\* founded_year that is no integer literal is written as the empty value,
\* and when the script ends every input row has its output row.
C4_OneRowPerInputRow ==
    program \in {"startups_cleaner", "companies_cleaner"} =>
        /\ pc # "aborted"
        /\ Len(outfile) <= Len(infile)
        /\ pc = "done" => Len(outfile) = Len(infile)
        /\ \A i \in 1..Len(outfile) :
               /\ outfile[i].name = infile[i].name
               /\ (program = "startups_cleaner" /\ Raised(PyInt(infile[i].founded_year)))
                      => outfile[i].founded_year = ""

----------------------------------------------------------------------------
(* Calls of extract_startup_info on every card *)

InitExtract ==
    /\ program = "extract"
    /\ pc = "call"
    /\ fn = "extract_startup_info"
    /\ arg \in Cards
    /\ result = None
    /\ CleanIdle /\ ScrapeIdle /\ WikiIdle /\ df = None

call_extract_startup_info ==
    /\ program = "extract" /\ pc = "call"
    /\ Return(extract_startup_info(arg))

SpecExtract == InitExtract /\ [][call_extract_startup_info]_vars

Extracted == program = "extract" /\ pc = "return"

StartupKeys ==
    {"name", "description", "industries", "location", "company_size",
     "founded_year", "investors", "latest_funding", "valuation", "website"}

\* C1: extract_startup_info raises for no card; the record it returns has
\* all ten keys; every key whose locator is absent holds its default (None,
\* or the empty list for industries and investors); a card with a name has
\* its name populated.
C1_ExtractTotal ==
    Extracted =>
        /\ ~ Raised(result)
        /\ DOMAIN result[1] = StartupKeys
        /\ LET startup == result[1]
           IN  /\ IsNone(arg.h3) => startup.name = None
               /\ IsSome(arg.h3) => IsSome(startup.name)
               /\ arg.h3 = Some(" Acme ") => startup.name = Some("Acme")
               /\ IsNone(arg.what_they_do) => startup.description = None
               /\ arg.industry_tags = <<>> => startup.industries = <<>>
               /\ IsNone(arg.quick_facts) => startup.location = None
               /\ arg.size_tags = <<>> => startup.company_size = None
               /\ Len(arg.size_tags) < 2 => startup.founded_year = None
               /\ arg.funding_tags = <<>> =>
                      /\ startup.investors = <<>>
                      /\ startup.latest_funding = None
                      /\ startup.valuation = None
               /\ IsNone(arg.website_link) => startup.website = None

\* a card with a name and nothing else gave a record with only its name set
C1_Witness ==
    /\ Extracted
    /\ arg = [h3 |-> Some(" Acme "), what_they_do |-> None, industry_tags |-> <<>>,
              quick_facts |-> None, size_tags |-> <<>>, funding_tags |-> <<>>,
              website_link |-> None]
    /\ result = Some([name |-> Some("Acme"), description |-> None, industries |-> <<>>,
                      location |-> None, company_size |-> None, founded_year |-> None,
                      investors |-> <<>>, latest_funding |-> None, valuation |-> None,
                      website |-> None])

\* the three funding fields as the loop leaves them after the tags given
FundingOf(tags) == FundingLoop(tags, 1, NoFunding)[1]

\* C2: each field of extract_startup_info is isolated: a failure while
\* extracting founded_year leaves company_size as extracted, and a failure on
\* one funding tag leaves investors, latest_funding and valuation as they
\* were classified from the tags before it.
C2_FieldIsolation ==
    Extracted =>
        LET startup == result[1]
            size_tags == arg.size_tags
            funding_tags == arg.funding_tags
        IN  /\ (Len(size_tags) > 0 /\ ~ size_tags[1].raises) =>
                   startup.company_size = Some(strip(size_tags[1].text))
            /\ \A i \in 1..Len(funding_tags) :
                   (funding_tags[i].raises /\ \A j \in 1..(i - 1) : ~ funding_tags[j].raises) =>
                       LET before == FundingOf(SubSeq(funding_tags, 1, i - 1))
                       IN  /\ startup.investors = before.investors
                           /\ startup.latest_funding = before.latest_funding
                           /\ startup.valuation = before.valuation

----------------------------------------------------------------------------
(* scraper.py: scrape_startups *)

\* the cards the directory serves: one with tags of every kind, one with a
\* name only, one without a name and one whose name is blank
FullCard ==
    [h3 |-> Some(" Acme "), what_they_do |-> Some(Some(" Rockets ")),
     industry_tags |-> <<[id |-> "industry-tags", text |-> " AI ", raises |-> FALSE],
                         [id |-> "industry-tags", text |-> "Space", raises |-> FALSE]>>,
     quick_facts |-> Some(Some(" " \o PIN \o "HQ: SF\nSize")),
     size_tags |-> <<[text |-> " 11-50 ", raises |-> FALSE],
                     [text |-> "Founded: 2015", raises |-> FALSE]>>,
     funding_tags |-> <<[text |-> "a16z", raises |-> FALSE],
                        [text |-> " Series A ", raises |-> FALSE],
                        [text |-> "YC", raises |-> FALSE]>>,
     website_link |-> Some(Some("acme.io?ref=1"))]

BareCard(h3) ==
    [h3 |-> h3, what_they_do |-> None, industry_tags |-> <<>>, quick_facts |-> None,
     size_tags |-> <<>>, funding_tags |-> <<>>, website_link |-> None]

ScrapedCards == {FullCard, BareCard(Some("Bolt")), BareCard(None), BareCard(Some(" "))}

InitScraper ==
    /\ program = "scraper"
    /\ pc = "load"
    /\ page_number = 1
    /\ startup_cards = 0
    /\ more = FALSE
    /\ startups = <<>>
    /\ df = None
    /\ CallIdle /\ CleanIdle /\ WikiIdle

\* get_page_content and soup.find_all: a page with no card ends the loop
load_page ==
    /\ program = "scraper" /\ pc = "load"
    /\ \E n \in 0..MaxCards, m \in (IF page_number < MaxPages THEN BOOLEAN ELSE {FALSE}) :
           /\ startup_cards' = n
           /\ more' = m
           /\ pc' = IF n = 0 THEN "save" ELSE "cards"
    /\ UNCHANGED <<program, page_number, startups, df, OutsideScraper>>

\* truth value of startup_info['name']
Truthy(o) == IsSome(o) /\ o[1] # ""

\* one pass of `for card in startup_cards`
process_card ==
    /\ program = "scraper" /\ pc = "cards"
    /\ startup_cards > 0
    /\ \E card \in ScrapedCards :
           LET startup_info == extract_startup_info(card)
           IN  IF Raised(startup_info)
               THEN pc' = "error" /\ UNCHANGED <<startup_cards, startups>>
               ELSE /\ pc' = pc
                    /\ startup_cards' = startup_cards - 1
                    /\ startups' = IF Truthy(startup_info[1].name)
                                   THEN Append(startups, startup_info[1])
                                   ELSE startups
    /\ UNCHANGED <<program, page_number, more, df, OutsideScraper>>

\* the page is done: stop without a "Show more" link, else go to the next page
end_of_page ==
    /\ program = "scraper" /\ pc = "cards"
    /\ startup_cards = 0
    /\ IF more
       THEN pc' = "load" /\ page_number' = page_number + 1
       ELSE pc' = "save" /\ page_number' = page_number
    /\ UNCHANGED <<program, startup_cards, more, startups, df, OutsideScraper>>

\* lambda x: ', '.join(x) if x else ''
JoinColumn(x) == IF Len(x) > 0 THEN join(", ", x) ELSE ""

\* pd.DataFrame(startups), the two list columns joined, to_csv; without a
\* record the frame has no 'investors' column and the lookup raises KeyError.
\* The statistics printed after the file is written raise when no record has
\* a company_size (mode() is empty), and may raise on other columns.
save_startups ==
    /\ program = "scraper" /\ pc = "save"
    /\ IF Len(startups) = 0
       THEN pc' = "error" /\ df' = df
       ELSE /\ df' = Some([i \in 1..Len(startups) |->
                              [startups[i] EXCEPT !["investors"] = JoinColumn(@),
                                                  !["industries"] = JoinColumn(@)]])
            /\ pc' \in IF \A i \in 1..Len(startups) : IsNone(startups[i].company_size)
                       THEN {"error"}
                       ELSE {"done", "error"}
    /\ UNCHANGED <<program, page_number, startup_cards, more, startups, OutsideScraper>>

NextScraper ==
    \/ load_page
    \/ process_card
    \/ end_of_page
    \/ save_startups

SpecScraper == InitScraper /\ [][NextScraper]_vars

----------------------------------------------------------------------------
(* Calls of extract_startup_info on cards with funding tags only *)

FundingTexts ==
    {"Series A", " series B ", "Seed", "Pre-SEED valuation", "$1B Valuation", "a16z", "YC"}

FundingCards ==
    {[BareCard(Some("Acme")) EXCEPT
         !.funding_tags = [i \in 1..Len(texts) |-> [text |-> texts[i], raises |-> FALSE]]] :
        texts \in SeqsUpTo(FundingTexts, MaxTags)}

InitFunding ==
    /\ program = "funding"
    /\ pc = "call"
    /\ fn = "extract_startup_info"
    /\ arg \in FundingCards
    /\ result = None
    /\ CleanIdle /\ ScrapeIdle /\ WikiIdle /\ df = None

call_funding ==
    /\ program = "funding" /\ pc = "call"
    /\ Return(extract_startup_info(arg))

SpecFunding == InitFunding /\ [][call_funding]_vars

FundingDone == program = "funding" /\ pc = "return"

\* the destination the keywords give a tag text
FundingKind(text) ==
    IF Contains(lower(text), "series") \/ Contains(lower(text), "seed") THEN "latest_funding"
    ELSE IF Contains(lower(text), "valuation") THEN "valuation"
    ELSE "investors"

IsInvestor(text) == FundingKind(text) = "investors"

\* the last text of a kind, None when there is none
LastOfKind(texts, kind) ==
    LET at == MaxIdx({i \in 1..Len(texts) : FundingKind(texts[i]) = kind})
    IN  IF at = 0 THEN None ELSE Some(texts[at])

\* C12: each funding tag goes to exactly one destination: latest_funding
\* when it contains "series" or "seed", otherwise valuation when it contains
\* "valuation", otherwise investors; investors holds the tags of the third
\* kind in document order, and a scalar holds the last tag of its kind
C12_FundingClassified ==
    FundingDone =>
        LET texts == [i \in 1..Len(arg.funding_tags) |-> strip(arg.funding_tags[i].text)]
            startup == result[1]
        IN  /\ ~ Raised(result)
            /\ startup.investors = SelectSeq(texts, IsInvestor)
            /\ startup.latest_funding = LastOfKind(texts, "latest_funding")
            /\ startup.valuation = LastOfKind(texts, "valuation")

----------------------------------------------------------------------------
(* sf_bay_area_companies_scraper.py: parse_list_entry *)

Dashes == {EN_DASH, "-"}

\* re.split(r'\s+[^-]\s+', text, maxsplit=1), ^ the en dash: the leftmost
\* run of whitespace that is followed by a dash and more whitespace
SplitStarts(text) ==
    {i \in 1..Len(text) :
        LET e == RunEnd(text, i, Whitespace)
        IN  /\ e >= i
            /\ Ch(text, e + 1) \in Dashes
            /\ RunEnd(text, e + 2, Whitespace) >= e + 2}

SplitDash(text) ==
    LET i == MinIdx(SplitStarts(text))
        e == RunEnd(text, i, Whitespace)
        z == RunEnd(text, e + 2, Whitespace)
    IN  IF i = 0 THEN <<text>>
        ELSE <<SubSeq(text, 1, i - 1), SubSeq(text, z + 1, Len(text))>>

\* re.match(r'(.*?)\s*(?:\((.*?)\))?$', location) on a stripped location:
\* group 1 is the shortest prefix without a newline after which whitespace
\* and then either a parenthesis closing at the end, or the end, follow
NoNewline(s, a, b) == \A j \in a..b : Ch(s, j) # "\n"

NotesAt(location, p) ==
    /\ Ch(location, p + 1) = "("
    /\ Len(location) >= p + 2
    /\ Ch(location, Len(location)) = ")"
    /\ NoNewline(location, p + 2, Len(location) - 1)

LocationStops(location, k) ==
    {p \in k..RunEnd(location, k + 1, Whitespace) :
        NotesAt(location, p) \/ p = Len(location)}

LocationPrefixes(location) ==
    {k \in 0..Len(location) :
        NoNewline(location, 1, k) /\ LocationStops(location, k) # {}}

\* <<matched, group(1), group(2)>>
LocationMatch(location) ==
    LET K == LocationPrefixes(location)
        k == MinIdx(K)
        p == MaxIdx(LocationStops(location, k))
    IN  IF K = {} THEN <<FALSE, "", None>>
        ELSE <<TRUE, SubSeq(location, 1, k),
               IF NotesAt(location, p)
               THEN Some(SubSeq(location, p + 2, Len(location) - 1))
               ELSE None>>

\* a parenthesised run of digits starts at i; its closing position, else 0
RankEnd(name, i) ==
    LET e == RunEnd(name, i + 1, Digits)
    IN  IF Ch(name, i) = "(" /\ e >= i + 1 /\ Ch(name, e + 1) = ")" THEN e + 1 ELSE 0

\* re.search(r'\((\d+)\)', name): position of the leftmost match, 0 if none
RankSearch(name) == MinIdx({i \in 1..Len(name) : RankEnd(name, i) # 0})

\* re.sub(r'\s*\(\d+\)', '', name), scanning from position pos
RECURSIVE SubRank(_, _)
SubRank(name, pos) ==
    LET j == MinIdx({i \in pos..Len(name) :
                        RankEnd(name, RunEnd(name, i, Whitespace) + 1) # 0})
        z == RankEnd(name, RunEnd(name, j, Whitespace) + 1)
    IN  IF j = 0 THEN SubSeq(name, pos, Len(name))
        ELSE SubSeq(name, pos, j - 1) \o SubRank(name, z + 1)

\* the variant that hands back a defaulted record when the separator is absent
parse_list_entry_defaulted(text, industry) ==
    LET parts == SplitDash(text)
        name0 == strip(parts[1])
        location0 == IF Len(parts) = 2 THEN strip(parts[2]) ELSE ""
        m == LocationMatch(location0)
        matched == Contains(location0, "(") /\ m[1]
        r == RankSearch(name0)
    IN  Some([name |-> IF r # 0 THEN SubRank(name0, 1) ELSE name0,
              industry |-> industry,
              headquarters |-> IF matched THEN strip(m[2]) ELSE location0,
              fortune_500_rank |->
                  IF r # 0
                  THEN Some(DigitsVal(SubSeq(name0, r + 1, RankEnd(name0, r) - 1)))
                  ELSE None,
              notes |-> IF matched THEN m[3] ELSE None])

\* parse_list_entry: Some(record), or None for an entry without the separator
parse_list_entry(text, industry) ==
    LET parts == SplitDash(text)
        name0 == strip(parts[1])
        location0 == strip(parts[2])
        m == LocationMatch(location0)
        matched == Contains(location0, "(") /\ m[1]
        r == RankSearch(name0)
    IN  IF Len(parts) # 2 THEN None
        ELSE Some([name |-> IF r # 0 THEN SubRank(name0, 1) ELSE name0,
                   industry |-> industry,
                   headquarters |-> IF matched THEN strip(m[2]) ELSE location0,
                   fortune_500_rank |->
                       IF r # 0
                       THEN Some(DigitsVal(SubSeq(name0, r + 1, RankEnd(name0, r) - 1)))
                       ELSE None,
                   notes |-> IF matched THEN m[3] ELSE None])

----------------------------------------------------------------------------
(* Calls of parse_list_entry on list-entry lines *)

\* lines "<name> (<rank>) - <location> (<notes>)": the parts and, for the
\* rank and the notes, the value each stands for
EntryNames == {"Acme Corp", "Coca-Cola", "Acme (formerly X)"}
EntryRanks == {<<"", None>>, <<" (42)", Some(42)>>, <<"(7)", Some(7)>>}
EntrySeparators == {" - ", " " \o EN_DASH \o " ", "  " \o EN_DASH \o "\t"}
EntryLocations == {"San Francisco, California", "SF - Bay", "San Jose (HQ), California"}
EntryNotes == {<<"", None>>, <<" (formerly Acme Inc.)", Some("formerly Acme Inc.")>>,
               <<"(x)", Some("x")>>}

EntryTexts ==
    {n \o r[1] \o sep \o l \o t[1] :
        n \in EntryNames, r \in EntryRanks, sep \in EntrySeparators,
        l \in EntryLocations, t \in EntryNotes}

InitEntries ==
    /\ program = "entries"
    /\ pc = "call"
    /\ fn = "parse_list_entry"
    /\ arg \in EntryTexts
    /\ result = None
    /\ CleanIdle /\ ScrapeIdle /\ WikiIdle /\ df = None

call_parse_list_entry ==
    /\ program = "entries" /\ pc = "call"
    /\ Return(parse_list_entry(arg, "Aerospace"))

SpecEntries == InitEntries /\ [][call_parse_list_entry]_vars

EntryParsed == program = "entries" /\ pc = "return"

\* C11: on every line "<name> (<rank>) - <location> (<notes>)" parse_list_entry
\* returns the name without the parenthesised integer, that integer as
\* fortune_500_rank (None without one), the location without its trailing
\* parenthetical as headquarters, and the text inside that parenthetical as
\* notes (None without one); the line is split at the first separator only
C11_ListEntryFields ==
    EntryParsed =>
        \A n \in EntryNames, r \in EntryRanks, sep \in EntrySeparators,
           l \in EntryLocations, t \in EntryNotes :
            arg = n \o r[1] \o sep \o l \o t[1] =>
                result = Some([name |-> n, industry |-> "Aerospace", headquarters |-> l,
                               fortune_500_rank |-> r[2], notes |-> t[2]])

----------------------------------------------------------------------------
(* sf_bay_area_companies_scraper.py: the list page and the detail pages *)

\* The list page is the sequence of its top-level h2, h3 and ul elements.
\* A heading has its text and, optionally, a span.mw-headline; a ul has li
\* items; a li has its own text, optionally the href of its own link, and
\* the li items of a ul nested in it.

\* item.get_text(): the text of the li with the text of what is nested in it
RECURSIVE ItemsText(_)
ItemsText(items) ==
    IF Len(items) = 0 THEN ""
    ELSE Head(items).own \o ItemsText(Head(items).sub) \o ItemsText(Tail(items))

get_text(item) == item.own \o ItemsText(item.sub)

\* item.find('a', href=True): the first link in the li, its own or a nested one
RECURSIVE FirstLink(_)
FirstLink(items) ==
    IF Len(items) = 0 THEN None
    ELSE IF IsSome(Head(items).href) THEN Head(items).href
    ELSE IF IsSome(FirstLink(Head(items).sub)) THEN FirstLink(Head(items).sub)
    ELSE FirstLink(Tail(items))

\* element.find_all('li'): every li below the ul, in document order
RECURSIVE FindAllLi(_)
FindAllLi(items) ==
    IF Len(items) = 0 THEN <<>>
    ELSE <<Head(items)>> \o FindAllLi(Head(items).sub) \o FindAllLi(Tail(items))

\* the ul elements nested below a list of li, in document order
RECURSIVE NestedUls(_)
NestedUls(items) ==
    IF Len(items) = 0 THEN <<>>
    ELSE (IF Len(Head(items).sub) > 0
          THEN <<[name |-> "ul", items |-> Head(items).sub]>> \o NestedUls(Head(items).sub)
          ELSE <<>>)
         \o NestedUls(Tail(items))

\* soup.find_all(['h2', 'h3', 'ul']): nested ul elements are found as well
RECURSIVE FindAll(_)
FindAll(elements) ==
    IF Len(elements) = 0 THEN <<>>
    ELSE <<Head(elements)>>
         \o (IF Head(elements).name = "ul" THEN NestedUls(Head(elements).items) ELSE <<>>)
         \o FindAll(Tail(elements))

HeadingText(element) ==
    IF IsSome(element.headline) THEN strip(element.headline[1]) ELSE strip(element.text)

ListEntries(items, current_industry) ==
    [n \in 1..Len(items) |->
        [industry |-> current_industry,
         text |-> strip(get_text(items[n])),
         link |-> FirstLink(<<items[n]>>)]]

\* the loop of parse_company_list over the elements found; current_industry
\* is "" before the first heading (None in the code, as falsy as "")
RECURSIVE ParseElements(_, _)
ParseElements(elements, current_industry) ==
    IF Len(elements) = 0 THEN <<>>
    ELSE LET element == Head(elements)
         IN  IF element.name \in {"h2", "h3"}
             THEN ParseElements(Tail(elements), HeadingText(element))
             ELSE IF current_industry # ""
             THEN ListEntries(FindAllLi(element.items), current_industry)
                  \o ParseElements(Tail(elements), current_industry)
             ELSE ParseElements(Tail(elements), current_industry)

parse_company_list(page) == ParseElements(FindAll(page), "")

field_mapping ==
    [h \in {"Industry", "Founded", "Headquarters", "Revenue", "Number of employees",
            "Type", "Traded as", "Founders", "Key people", "Services",
            "Subsidiaries", "Website"} |->
        CASE h = "Industry" -> "industry"
          [] h = "Founded" -> "founded"
          [] h = "Headquarters" -> "headquarters"
          [] h = "Revenue" -> "revenue"
          [] h = "Number of employees" -> "employees"
          [] h = "Type" -> "type"
          [] h = "Traded as" -> "traded_as"
          [] h = "Founders" -> "founders"
          [] h = "Key people" -> "key_people"
          [] h = "Services" -> "services"
          [] h = "Subsidiaries" -> "subsidiaries"
          [] h = "Website" -> "website"]

ListFields == {"services", "subsidiaries", "founders", "key_people"}

StripAll(xs) == [n \in 1..Len(xs) |-> strip(xs[n])]

\* the empty dict
EmptyDict == [k \in {} |-> None]

\* the variant in which the keys the dict already has keep their values
update_keeping(d1, d2) == d1 @@ d2

\* d1.update(d2)
update(d1, d2) == d2 @@ d1

\* the loop of parse_infobox over the rows of the table
RECURSIVE InfoboxRows(_, _)
InfoboxRows(rows, data) ==
    IF Len(rows) = 0 THEN data
    ELSE LET tr == Head(rows)
             header_text == strip(tr.th[1])
             field_name == field_mapping[header_text]
             value == tr.td[1]
             parsed == IF field_name \in ListFields
                       THEN IF Len(value.li) > 0 THEN StripAll(value.li)
                            ELSE StripAll(split(value.text, ","))
                       ELSE strip(value.text)
         IN  IF IsNone(tr.th) THEN InfoboxRows(Tail(rows), data)
             ELSE IF header_text \notin DOMAIN field_mapping \/ IsNone(tr.td)
             THEN InfoboxRows(Tail(rows), data)
             ELSE InfoboxRows(Tail(rows), update(data, field_name :> parsed))

parse_infobox(soup) ==
    IF IsNone(soup.infobox) THEN EmptyDict ELSE InfoboxRows(soup.infobox[1], EmptyDict)

base_url == "https://en.wikipedia.org"

\* urljoin(base_url, link) for a link that is an absolute path
urljoin(base, link) == base \o link

\* pd.DataFrame(list of dicts): one column per key, None where a dict lacks it
DataFrame(dicts) ==
    LET columns == UNION {DOMAIN dicts[n] : n \in 1..Len(dicts)}
    IN  [n \in 1..Len(dicts) |->
            [c \in columns |-> IF c \in DOMAIN dicts[n] THEN dicts[n][c] ELSE None]]

----------------------------------------------------------------------------
(* sf_bay_area_companies_scraper.py: main, process_companies, save_to_csv *)

Headings ==
    {[name |-> "h2", headline |-> Some(" Aerospace "), text |-> " Aerospace[edit] "],
     [name |-> "h3", headline |-> None, text |-> " Biotech\n"]}

\* a ranked company with a note and an article, an entry without the
\* separator, and an entry that is only a rank, with a list nested in it
Lis ==
    {[own |-> " Acme (42) " \o EN_DASH \o " SF (HQ) ",
      href |-> Some("/wiki/Acme"), sub |-> <<>>],
     [own |-> "Initech, SF", href |-> None, sub |-> <<>>],
     [own |-> "(7) - Oakland\n", href |-> Some("https://example.org/"),
      sub |-> <<[own |-> " Hooli-SF ", href |-> None, sub |-> <<>>]>>]}

\* the sequences of exactly k top-level li
RECURSIVE ItemSeqs(_)
ItemSeqs(k) ==
    IF k = 0 THEN {<<>>}
    ELSE {Append(q, item) : q \in ItemSeqs(k - 1), item \in Lis}

\* the pages of at most e elements with at most n top-level li in all
RECURSIVE Documents(_, _)
Documents(e, n) ==
    IF e = 0 THEN {<<>>}
    ELSE {<<>>}
         \cup {<<h>> \o d : h \in Headings, d \in Documents(e - 1, n)}
         \cup UNION {{<<[name |-> "ul", items |-> q]>> \o d :
                         q \in ItemSeqs(k), d \in Documents(e - 1, n - k)} : k \in 0..n}

InfoboxSample ==
    <<[th |-> None, td |-> Some([text |-> "logo", li |-> <<>>])],
      [th |-> Some(" Industry "), td |-> Some([text |-> " Rockets ", li |-> <<>>])],
      [th |-> Some("Key people"), td |-> Some([text |-> "Ann\nBob", li |-> <<" Ann ", "Bob">>])],
      [th |-> Some("Services"), td |-> Some([text |-> "Launch, Cargo", li |-> <<>>])],
      [th |-> Some("Founded"), td |-> None],
      [th |-> Some("Products"), td |-> Some([text |-> "Engines", li |-> <<>>])]>>

\* what get_page gives for an article: None when the request fails
Articles ==
    {None, Some([infobox |-> None]), Some([infobox |-> Some(InfoboxSample)])}

InitWiki ==
    /\ program = "wiki"
    /\ pc = "main"
    /\ content \in {None} \cup {Some(d) : d \in Documents(MaxElements, MaxItems)}
    /\ company_list = <<>>
    /\ company = 0
    /\ companies = <<>>
    /\ detailed_page = None
    /\ df = None
    /\ CallIdle /\ CleanIdle /\ ScrapeIdle

\* main: the list page could not be fetched, nothing is processed or saved
main_no_content ==
    /\ program = "wiki" /\ pc = "main"
    /\ IsNone(content)
    /\ pc' = "done"
    /\ UNCHANGED <<program, df, wikiVars, OutsideWiki>>

\* process_companies up to its loop
process_companies ==
    /\ program = "wiki" /\ pc = "main"
    /\ IsSome(content)
    /\ company_list' = parse_company_list(content[1])
    /\ company' = 1
    /\ pc' = "loop"
    /\ UNCHANGED <<program, df, content, companies, detailed_page, OutsideWiki>>

\* one pass of `for company in companies`
process_company ==
    /\ program = "wiki" /\ pc = "loop"
    /\ company <= Len(company_list)
    /\ LET entry == company_list[company]
           basic_data == parse_list_entry(entry.text, entry.industry)
           url == urljoin(base_url, entry.link[1])
       IN  IF IsNone(basic_data)
           THEN companies' = companies /\ detailed_page' = detailed_page
           ELSE IF IsSome(entry.link) /\ StartsWithAt(entry.link[1], "/wiki/", 1)
           THEN \E article \in Articles :
                    /\ detailed_page' = article
                    /\ companies' =
                           Append(companies,
                                  IF IsNone(article) THEN basic_data[1]
                                  ELSE update(update(basic_data[1],
                                                     parse_infobox(article[1])),
                                              "wikipedia_url" :> url))
           ELSE companies' = Append(companies, basic_data[1]) /\ detailed_page' = detailed_page
    /\ company' = company + 1
    /\ UNCHANGED <<program, pc, df, content, company_list, OutsideWiki>>

\* the loop is over; save_to_csv writes nothing without a record
save_to_csv ==
    /\ program = "wiki" /\ pc = "loop"
    /\ company > Len(company_list)
    /\ df' = IF Len(companies) = 0 THEN None ELSE Some(DataFrame(companies))
    /\ pc' = "done"
    /\ UNCHANGED <<program, wikiVars, OutsideWiki>>

NextWiki ==
    \/ main_no_content
    \/ process_companies
    \/ process_company
    \/ save_to_csv

SpecWiki == InitWiki /\ [][NextWiki]_vars

\* C3: in either pipeline every record emitted so far has a non-empty name
C3_NamedRecords ==
    /\ \A n \in 1..Len(startups) : IsSome(startups[n].name) /\ startups[n].name[1] # ""
    /\ \A n \in 1..Len(companies) : companies[n].name # ""

\* the entry text has a hyphen or en dash with whitespace on both sides
HasSeparator(text) ==
    \E j \in 2..(Len(text) - 1) :
        /\ Ch(text, j) \in {"-", EN_DASH}
        /\ Ch(text, j - 1) \in Whitespace
        /\ Ch(text, j + 1) \in Whitespace

EntryHasSeparator(entry) == HasSeparator(entry.text)

\* the entries the loop has been through
Processed == SubSeq(company_list, 1, company - 1)

\* companies' is companies, or companies with one record appended
Appended ==
    \/ companies' = companies
    \/ /\ Len(companies') = Len(companies) + 1
       /\ SubSeq(companies', 1, Len(companies)) = companies

\* what holds between passes of the loop: as many records as processed
\* entries with the separator; the entry the loop is at gives None when it
\* has no separator; the entry just processed, when it has the separator,
\* is the last record
SkipsMalformed ==
    program = "wiki" /\ pc \in {"loop", "done"} =>
        /\ Len(companies) = Len(SelectSeq(Processed, EntryHasSeparator))
        /\ company \in 1..Len(company_list) /\ ~ EntryHasSeparator(company_list[company])
               => IsNone(parse_list_entry(company_list[company].text,
                                          company_list[company].industry))
        /\ company > 1 /\ EntryHasSeparator(company_list[company - 1])
               => LET done == company_list[company - 1]
                      parsed == parse_list_entry(done.text, done.industry)
                      last == companies[Len(companies)]
                  IN  /\ IsSome(parsed)
                      /\ last.name = parsed[1].name
                      /\ last.fortune_500_rank = parsed[1].fortune_500_rank
                      /\ last.notes = parsed[1].notes

\* C5: an entry without a whitespace-delimited dash makes parse_list_entry
\* return None, and self.companies is built by appending, in the order of
\* the entries, one record for each entry that has the separator and none
\* for the others, whatever comes before or after them
C5_SkipsMalformed == [] SkipsMalformed /\ [][Appended]_vars

\* a finished run over a list where entries without the separator come
\* before and after one that has it
C5_Witness ==
    /\ program = "wiki" /\ pc = "done"
    /\ Len(companies) >= 1
    /\ \E a, b, c \in 1..Len(company_list) :
           /\ a < b /\ b < c
           /\ ~ EntryHasSeparator(company_list[a])
           /\ EntryHasSeparator(company_list[b])
           /\ ~ EntryHasSeparator(company_list[c])

\* a list cell as to_csv writes it: str() of the Python list
ListCell(xs) == "[" \o join(", ", [n \in 1..Len(xs) |-> "'" \o xs[n] \o "'"]) \o "]"

\* C13: when a pipeline saves its frame, every list-typed field of every
\* record (industries, investors; services, subsidiaries, founders,
\* key_people) is written as one string, its elements in their order
\* separated by ", ", the empty list as the empty string
C13_ListsJoinedOnce ==
    IsSome(df) =>
        /\ program = "scraper" =>
               \A i \in 1..Len(startups) :
                   /\ df[1][i].investors = join(", ", startups[i].investors)
                   /\ df[1][i].industries = join(", ", startups[i].industries)
        /\ program = "wiki" =>
               \A i \in 1..Len(companies) :
                   \A c \in ListFields \cap DOMAIN companies[i] :
                       ListCell(df[1][i][c]) = join(", ", companies[i][c])

CompanyKeys ==
    {"name", "industry", "headquarters", "fortune_500_rank", "notes", "founded",
     "revenue", "employees", "type", "traded_as", "founders", "key_people",
     "services", "subsidiaries", "website", "wikipedia_url"}

\* C14: every record process_companies has appended holds every recognized
\* company field key, whatever the infobox contained, so that all records
\* have the same keys
C14_AllCompanyKeys ==
    /\ \A i \in 1..Len(companies) : DOMAIN companies[i] = CompanyKeys
    /\ \A i, j \in 1..Len(companies) : DOMAIN companies[i] = DOMAIN companies[j]

----------------------------------------------------------------------------
(* sf_bay_area_companies_scraper.py: the size band of save_to_csv (the      *)
(* variant kept as comments below main)                                     *)

\* re.sub(r'[^\d]', '', employees_str)
RECURSIVE DigitsOnly(_)
DigitsOnly(s) ==
    IF s = "" THEN ""
    ELSE (IF Ch(s, 1) \in Digits THEN Ch(s, 1) ELSE "") \o DigitsOnly(Tail(s))

\* the variant whose bands are closed on the high end
size_band_closed_high(emp_count) ==
    IF emp_count <= 11 THEN "1-10 employees"
    ELSE IF emp_count <= 51 THEN "11-50 employees"
    ELSE IF emp_count <= 201 THEN "51-200 employees"
    ELSE IF emp_count <= 501 THEN "201-500 employees"
    ELSE IF emp_count <= 1001 THEN "501-1000 employees"
    ELSE "1001-5000 employees"

\* the if/elif chain over emp_count
size_band(emp_count) ==
    IF emp_count < 11 THEN "1-10 employees"
    ELSE IF emp_count < 51 THEN "11-50 employees"
    ELSE IF emp_count < 201 THEN "51-200 employees"
    ELSE IF emp_count < 501 THEN "201-500 employees"
    ELSE IF emp_count < 1001 THEN "501-1000 employees"
    ELSE "1001-5000 employees"

\* company_size of a record: '' without employees text or without a digit
\* in it (int('') raises and the bare except leaves '')
company_size_of(employees_str) ==
    LET ds == DigitsOnly(employees_str)
    IN  IF employees_str = "" \/ ds = "" THEN "" ELSE size_band(DigitsVal(ds))

BandCounts == {0, 1, 10, 11, 50, 51, 200, 201, 500, 501, 1000, 1001, 5000, 5001, 250000}

\* the ways a count is written in an employees cell
EmployeeForms(n) ==
    {IntToStr(n), "~" \o IntToStr(n), IntToStr(n) \o " employees", IntToStr(n) \o "+"}

EmployeeTexts == {"", "n/a"} \cup UNION {EmployeeForms(n) : n \in BandCounts}

InitBands ==
    /\ program = "bands"
    /\ pc = "call"
    /\ fn = "company_size"
    /\ arg \in EmployeeTexts
    /\ result = None
    /\ CleanIdle /\ ScrapeIdle /\ WikiIdle /\ df = None

call_company_size ==
    /\ program = "bands" /\ pc = "call"
    /\ Return(Some(company_size_of(arg)))

SpecBands == InitBands /\ [][call_company_size]_vars

BandDone == program = "bands" /\ pc = "return"

\* the low ends of the bands (0 and the thresholds), and for each band its
\* label and the bounds the label names
BandLows == <<0, 11, 51, 201, 501, 1001>>
BandLabels ==
    <<"1-10 employees", "11-50 employees", "51-200 employees", "201-500 employees",
      "501-1000 employees", "1001-5000 employees">>
LabelBounds == <<<<1, 10>>, <<11, 50>>, <<51, 200>>, <<201, 500>>, <<501, 1000>>, <<1001, 5000>>>>

\* the bands [low, next low) that hold the count n, the last one unbounded
BandsOf(n) ==
    {k \in 1..6 : BandLows[k] <= n /\ (k = 6 \/ n < BandLows[k + 1])}

\* the count n is labelled with the one band that holds it, and from the
\* count `least` on lies within the bounds its label names, except in the
\* highest band
Banded(n, least) ==
    /\ Cardinality(BandsOf(n)) = 1
    /\ \A k \in BandsOf(n) :
           /\ result = Some(BandLabels[k])
           /\ (k < 6 /\ n >= least) => (LabelBounds[k][1] <= n /\ n <= LabelBounds[k][2])

C16_OriginalColumnsKept ==
    program = "startups_cleaner" =>
        \A i \in 1..Len(outfile) :
            /\ \A c \in DOMAIN infile[i] : outfile[i][c] = infile[i][c]
            /\ DOMAIN outfile[i] =
                   DOMAIN infile[i]
                   \cup {"latest_funding_in_millions", "latest_funding_original_unit",
                         "valuation_in_millions", "valuation_original_unit"}

\* the entry the loop has just been through, and whether its article was
\* fetched in that pass
LastEntry == company_list[company - 1]

Fetched ==
    /\ IsSome(LastEntry.link)
    /\ StartsWithAt(LastEntry.link[1], "/wiki/", 1)
    /\ IsSome(detailed_page)

\* the rows of the fetched article's infobox that give the field header
RowsOf(header) ==
    IF ~ Fetched \/ IsNone(detailed_page[1].infobox) THEN <<>>
    ELSE SelectSeq(detailed_page[1].infobox[1],
                   LAMBDA tr : IsSome(tr.th) /\ strip(tr.th[1]) = header /\ IsSome(tr.td))

\* the infobox value of the field when it has such a row, else the value
\* parsed from the list entry
Merged(header, listed) ==
    LET rows == RowsOf(header)
    IN  IF Len(rows) = 0 THEN listed ELSE strip(rows[Len(rows)].td[1].text)

RECURSIVE DocumentEntries(_, _)
DocumentEntries(elements, heading) ==
    IF Len(elements) = 0 THEN <<>>
    ELSE IF Head(elements).name \in {"h2", "h3"}
    THEN DocumentEntries(Tail(elements), Some(HeadingText(Head(elements))))
    ELSE (IF IsNone(heading) THEN <<>>
          ELSE ListEntries(FindAllLi(Head(elements).items), heading[1]))
         \o DocumentEntries(Tail(elements), heading)

\* every entry is one of the li of the document, and no entry comes from a
\* li that is before the li of the entry emitted before it
RECURSIVE InDocumentOrder(_, _)
InDocumentOrder(entries, lis) ==
    IF Len(entries) = 0 THEN TRUE
    ELSE IF Len(lis) = 0 THEN FALSE
    ELSE IF Head(entries) = Head(lis) THEN InDocumentOrder(Tail(entries), lis)
    ELSE InDocumentOrder(entries, Tail(lis))

Listed == program = "wiki" /\ pc \in {"loop", "done"} /\ IsSome(content)

\* C18: the entries parse_company_list emits carry the text of the nearest
\* heading before their list, none comes from a list before the first
\* heading, and they are emitted in the order of their li in the document
C18_HeadingsInOrder ==
    Listed => InDocumentOrder(company_list, DocumentEntries(content[1], None))

\* the li elements of the page that follow a heading, nested ones included,
\* in document order
RECURSIVE DocumentLis(_, _)
DocumentLis(elements, headed) ==
    IF Len(elements) = 0 THEN <<>>
    ELSE IF Head(elements).name \in {"h2", "h3"}
    THEN DocumentLis(Tail(elements), TRUE)
    ELSE (IF headed THEN FindAllLi(Head(elements).items) ELSE <<>>)
         \o DocumentLis(Tail(elements), headed)

\* C19: parse_company_list emits one entry for each li that follows a
\* heading, nested li included, and the entry of a li has the text of that li
\* alone, so that no text of the page is emitted twice
C19_OneEntryPerLi ==
    Listed =>
        LET lis == DocumentLis(content[1], FALSE)
        IN  /\ Len(company_list) = Len(lis)
            /\ \A n \in 1..Len(lis) : company_list[n].text = strip(lis[n].own)

====
